---- MODULE Spec2Model ----
(***************************************************************************)
(* A model of replus (src/replus/__init__.py): the template compiler that  *)
(* expands {{placeholders}} into one regular expression per template, the  *)
(* pattern registry built by Replus.__init__, the query surface            *)
(* (parse / search) and the overlap resolver purge_overlaps.               *)
(*                                                                         *)
(* Strings are sequences of tokens: a token is a literal, a placeholder    *)
(* {{special key @index}}, or one of the pieces the compiler emits         *)
(* ("(?P<key_n>", "(?P=key_n)", "(special", "|", ")").  A span-bearing     *)
(* result (Match or Group) is a record with its _start and _end.           *)
(***************************************************************************)
EXTENDS Integers, Sequences, FiniteSets, TLC

VARIABLES
    \* ---- the caller's arguments to Replus(...)
    input,             \* patterns_dir_or_dict: the bundles, in iteration order
    whitespace_noise,  \* the whitespace_noise argument ("" stands for None)
    \* ---- the fields of the Replus object
    patterns_src,      \* source key -> list of alternatives
    patterns_all,      \* pattern type -> list of templates, in insertion order
    group_counter,     \* Counter: key -> occurrences expanded in this template
    patterns,          \* list of (key, compiled pattern, template)
    all_groups,        \* defaultdict(list): template -> registered names
    \* ---- where Replus.__init__ stands
    pc,                \* "new" | "loop" | "expand" | "ready" | "failed"
    cur,               \* the template being compiled and the pattern so far
    error,             \* the exception __init__ raised, if any
    \* ---- the last parse / search call and what it returned
    call,
    \* ---- Replus.purge_overlaps, one call, step by step
    arg,        \* the list as the caller passed it
    matches,    \* the parameter `matches` (sorted in place by the call)
    purged,     \* the local list `purged`
    pidx,       \* position of the for loop in matches[1:] (1-based index of m)
    ppc,        \* "idle" | "call" | "loop" | "done"
    ret,        \* the returned list
    \* ---- one Match object and the calls made on it
    string,     \* the string handed to the engine
    match,      \* the Match: its type, all_group_names, span and captures
    recv,       \* the object the next call is made on: the Match or a Group
    nav,        \* the last call on recv and what it returned or raised
    \* ---- the caller of Replus(...)
    prior       \* the registry of the engine built before from the same mapping

purgeVars == <<arg, matches, purged, pidx, ppc, ret>>

engineVars == <<input, whitespace_noise, patterns_src, patterns_all, group_counter,
                patterns, all_groups, pc, cur, error, call, prior>>

treeVars == <<string, match, recv, nav>>

vars == <<input, whitespace_noise, patterns_src, patterns_all, group_counter,
          patterns, all_groups, pc, cur, error, call,
          arg, matches, purged, pidx, ppc, ret,
          string, match, recv, nav, prior>>

-----------------------------------------------------------------------------
(* Bounds *)

MaxPos == 4           \* positions of the spans handed to purge_overlaps
MaxSpans == 3         \* spans in one list handed to purge_overlaps
MaxTokens == 3        \* tokens in the templates of one engine (SpecBuild)
MaxTemplates == 2     \* templates of one engine
QueryTokens == 2      \* tokens in the templates of one engine (Spec)
RecursionLimit == 8   \* nested _build_pattern calls before RecursionError
TextLen == 2          \* length of the text handed to parse / search
MaxMatches == 2       \* matches the engine finds in one call
TreeTextLen == 4      \* length of the text a Match is taken from
MaxBundles == 2       \* bundles of the mapping handed to the loader

-----------------------------------------------------------------------------
(* Sequence helpers *)

Last(s) == s[Len(s)]

Front(s) == SubSeq(s, 1, Len(s) - 1)

Range(s) == {s[i] : i \in 1..Len(s)}

SeqsUpTo(S, n) == UNION {[1..k -> S] : k \in 0..n}

-----------------------------------------------------------------------------
(* Overlap resolver: Replus.purge_overlaps *)

\* Match.length / Group.length: end - start, fixed at construction
Length(m) == m.end - m.start

\* list.sort(key=lambda x: x._start): stable insertion of x into a sorted list
RECURSIVE InsertByStart(_, _)
InsertByStart(s, x) ==
    IF s = <<>> THEN <<x>>
    ELSE IF Last(s).start <= x.start THEN Append(s, x)
    ELSE Append(InsertByStart(Front(s), x), Last(s))

RECURSIVE SortByStart(_)
SortByStart(s) ==
    IF s = <<>> THEN <<>>
    ELSE InsertByStart(SortByStart(Front(s)), Last(s))

\* mutants of the loop body
SweepStepAlwaysAppend(p, m) == Append(p, m)

SweepStepShorterWins(p, m) ==
    IF m.start >= Last(p).end THEN Append(p, m)
    ELSE IF m.end >= Last(p).end /\ Length(m) < Length(Last(p))
         THEN Append(Front(p), m)
         ELSE p

SweepStepTieReplaces(p, m) ==
    IF m.start >= Last(p).end THEN Append(p, m)
    ELSE IF m.end >= Last(p).end /\ Length(m) >= Length(Last(p))
         THEN Append(Front(p), m)
         ELSE p

\* the body of `for m in matches[1:]`
SweepStep(p, m) ==
    IF m.start >= Last(p).end THEN Append(p, m)
    ELSE IF m.end >= Last(p).end /\ Length(m) > Length(Last(p))
         THEN Append(Front(p), m)
         ELSE p

RECURSIVE Sweep(_, _, _)
Sweep(p, ms, i) ==
    IF i > Len(ms) THEN p ELSE Sweep(SweepStep(p, ms[i]), ms, i + 1)

\* the whole call, as a function of the list passed
purge_overlaps(ms) ==
    LET sorted == SortByStart(ms)
    IN  IF Len(sorted) <= 1 THEN sorted
        ELSE Sweep(<<sorted[1]>>, sorted, 2)

-----------------------------------------------------------------------------
(* Tokens of a template and of a compiled pattern *)

\* a literal character of the template
Lit(c) == [t |-> "lit", sp |-> "", key |-> c, at |-> FALSE, idx |-> 0]

\* the placeholder text "{{" sp key "}}"
Ph(sp, key) == [t |-> "ph", sp |-> sp, key |-> key, at |-> FALSE, idx |-> 0]

\* the placeholder text "{{" sp key "@" n "}}"
PhAt(sp, key, n) == [t |-> "ph", sp |-> sp, key |-> key, at |-> TRUE, idx |-> n]

\* "(?P<key_n>"
Named(key, n) == [t |-> "named", sp |-> "", key |-> key, at |-> FALSE, idx |-> n]

\* "(?P=key_n)"
BackRef(key, n) == [t |-> "ref", sp |-> "", key |-> key, at |-> FALSE, idx |-> n]

\* "(" followed by a special marker
Open(sp) == [t |-> "open", sp |-> sp, key |-> "", at |-> FALSE, idx |-> 0]

Pipe == [t |-> "pipe", sp |-> "", key |-> "", at |-> FALSE, idx |-> 0]

Close == [t |-> "close", sp |-> "", key |-> "", at |-> FALSE, idx |-> 0]

\* Python's None, as the value of an optional argument
NONE == "None"

\* "(" whitespace_noise ")"
Noise == [t |-> "noise", sp |-> "", key |-> "", at |-> FALSE, idx |-> 0]

\* the registered name f"{group_key}_{group_count}"
Name(key, n) == [key |-> key, n |-> n]

\* a source-table key: an optional special-marker prefix, then the key
SrcKey(prefix, key) == <<prefix, key>>

\* the keys placeholders name
KeyNames == {"a", "b", "c", "n", "o", "p", "zz"}

\* Counter(): every key counts 0
Counter == [k \in KeyNames |-> 0]

-----------------------------------------------------------------------------
(* Template compiler: Replus._build_pattern and Replus._build_group *)

\* the special markers group_pattern accepts between "{{" and the key
GroupPatternSpecials ==
    {"#", "?:", "?>", "?!", "?=", "?a:", "?i:", "?m:", "?s:", "?x:", "?l:", "?<!", "?<="}

\* whether group_pattern matches the placeholder text tok
group_pattern(tok) ==
    tok.t = "ph" /\ tok.sp \in ({""} \cup GroupPatternSpecials)

\* the first match of regex.finditer(group_pattern, pattern): its index, or 0
FirstGroupMatch(pattern) ==
    IF \E i \in 1..Len(pattern) : group_pattern(pattern[i])
    THEN CHOOSE i \in 1..Len(pattern) :
            /\ group_pattern(pattern[i])
            /\ \A j \in 1..(i - 1) : ~group_pattern(pattern[j])
    ELSE 0

\* "|".join(alts)
RECURSIVE pipe_together(_)
pipe_together(alts) ==
    IF alts = <<>> THEN <<>>
    ELSE IF Len(alts) = 1 THEN alts[1]
    ELSE alts[1] \o <<Pipe>> \o pipe_together(Tail(alts))

\* str.replace(old, new, 1) with old the text of one placeholder
ReplaceFirst(pattern, old, new) ==
    IF \E i \in 1..Len(pattern) : pattern[i] = old
    THEN LET i == CHOOSE k \in 1..Len(pattern) :
                      pattern[k] = old /\ \A j \in 1..(k - 1) : pattern[j] /= old
         IN  SubSeq(pattern, 1, i - 1) \o new \o SubSeq(pattern, i + 1, Len(pattern))
    ELSE pattern

\* str.replace(old, new) with old the text of one placeholder
RECURSIVE ReplaceAll(_, _, _)
ReplaceAll(pattern, old, new) ==
    IF pattern = <<>> THEN <<>>
    ELSE (IF Head(pattern) = old THEN new ELSE <<Head(pattern)>>)
         \o ReplaceAll(Tail(pattern), old, new)

\* mutant: the name is put at the head of the list
InsertGroup(groups, template, name) ==
    IF template \in DOMAIN groups
    THEN [groups EXCEPT ![template] = <<name>> \o @]
    ELSE [x \in DOMAIN groups \cup {template} |->
             IF x = template THEN <<name>> ELSE groups[x]]

\* self.all_groups[template].append(name) on a defaultdict(list)
AppendGroup(groups, template, name) ==
    IF template \in DOMAIN groups
    THEN [groups EXCEPT ![template] = Append(@, name)]
    ELSE [x \in DOMAIN groups \cup {template} |->
             IF x = template THEN <<name>> ELSE groups[x]]

\* what one call of _build_group leaves behind: the exception it raised
\* ("ok": none), the new pattern, all_groups and group_counter
Result(status, pattern, groups, counter) ==
    [status |-> status, pattern |-> pattern, groups |-> groups, counter |-> counter]

\* lines 261-268: a plain placeholder of a key of the source table
ExpandPlain(gm, pattern, template, alts, groups, counter) ==
    LET n == counter[gm.key]
    IN  Result("ok",
               ReplaceFirst(pattern, Ph("", gm.key),
                            <<Named(gm.key, n)>> \o pipe_together(alts) \o <<Close>>),
               AppendGroup(groups, template, Name(gm.key, n)),
               [counter EXCEPT ![gm.key] = @ + 1])

\* lines 270-278: a backreference placeholder
ExpandBackref(gm, pattern, template, alts, groups, counter) ==
    LET n == counter[gm.key]
        back_reference_index == IF gm.at THEN gm.idx ELSE 1
    IN  IF n >= back_reference_index
        THEN Result("ok",
                    ReplaceFirst(pattern, gm, <<BackRef(gm.key, n - back_reference_index)>>),
                    groups, counter)
        ELSE Result("AssertionError", pattern, groups, counter)

\* mutant: a special-marker group that registers a name
ExpandSpecialRegisters(gm, pattern, template, alts, groups, counter) ==
    Result("ok",
           ReplaceFirst(pattern, Ph(gm.sp, gm.key),
                        <<Open(gm.sp)>> \o pipe_together(alts) \o <<Close>>),
           AppendGroup(groups, template, Name(gm.key, counter[gm.key])),
           [counter EXCEPT ![gm.key] = @ + 1])

\* lines 279-285: a special-marker placeholder of a key of the source table
ExpandSpecial(gm, pattern, template, alts, groups, counter) ==
    Result("ok",
           ReplaceFirst(pattern, Ph(gm.sp, gm.key),
                        <<Open(gm.sp)>> \o pipe_together(alts) \o <<Close>>),
           groups,
           [counter EXCEPT ![gm.key] = @ + 1])

\* the prefixes tried, in this order, for a key absent under its plain name
ImplicitPrefixes ==
    <<"?:", "?>", "?!", "?=", "?<=", "?<!", "?a:", "?i:", "?m:", "?s:", "?x:", "?l:">>

\* lines 286-298: the key is not in the source table under its plain name
ExpandAbsent(gm, pattern, template, src, groups, counter) ==
    IF gm.sp /= ""
    THEN Result("Exception", pattern, groups, counter)
    ELSE IF \E i \in 1..Len(ImplicitPrefixes) :
                SrcKey(ImplicitPrefixes[i], gm.key) \in DOMAIN src
    THEN LET i == CHOOSE k \in 1..Len(ImplicitPrefixes) :
                     /\ SrcKey(ImplicitPrefixes[k], gm.key) \in DOMAIN src
                     /\ \A j \in 1..(k - 1) :
                           SrcKey(ImplicitPrefixes[j], gm.key) \notin DOMAIN src
             sk == ImplicitPrefixes[i]
             new_pattern ==
                 ReplaceAll(pattern, Ph("", gm.key),
                            <<Open(sk)>> \o pipe_together(src[SrcKey(sk, gm.key)])
                                \o <<Close>>)
         IN  IF new_pattern /= pattern
             THEN Result("ok", new_pattern, groups, counter)
             ELSE Result("AssertionError", pattern, groups, counter)
    ELSE Result("UnknownTemplateGroup", pattern, groups, counter)

\* Replus._build_group
build_group(gm, pattern, template, src, groups, counter) ==
    IF SrcKey("", gm.key) \in DOMAIN src
    THEN LET alts == src[SrcKey("", gm.key)]
         IN  IF gm.sp = "" THEN ExpandPlain(gm, pattern, template, alts, groups, counter)
             ELSE IF gm.sp = "#"
                  THEN ExpandBackref(gm, pattern, template, alts, groups, counter)
                  ELSE ExpandSpecial(gm, pattern, template, alts, groups, counter)
    ELSE ExpandAbsent(gm, pattern, template, src, groups, counter)

\* line 252: regex.sub(r" +|\\\s+", f"({whitespace_noise})", pattern): every
\* run of literal spaces becomes one group
RECURSIVE NoiseRuns(_)
NoiseRuns(pattern) ==
    IF pattern = <<>> THEN <<>>
    ELSE IF Head(pattern) = Lit(" ")
         THEN IF Len(pattern) > 1 /\ pattern[2] = Lit(" ")
              THEN NoiseRuns(Tail(pattern))
              ELSE <<Noise>> \o NoiseRuns(Tail(pattern))
         ELSE <<Head(pattern)>> \o NoiseRuns(Tail(pattern))

\* lines 251-253: what _build_pattern returns once no placeholder is found
FinalPattern(pattern, noise) ==
    IF noise /= NONE THEN NoiseRuns(pattern) ELSE pattern

\* the nesting depth after each token; -1 once a ")" closes nothing
RECURSIVE ParenDepth(_, _)
ParenDepth(pattern, d) ==
    IF d < 0 \/ pattern = <<>> THEN d
    ELSE LET tok == Head(pattern)
             step == IF tok.t \in {"named", "open"} \/ tok = Lit("(") THEN 1
                     ELSE IF tok.t = "close" THEN -1 ELSE 0
         IN  ParenDepth(Tail(pattern), d + step)

\* regex.compile (the external engine): it rejects a pattern whose
\* parentheses do not balance and a backreference to a name no group defines
EngineCompiles(pattern) ==
    /\ ParenDepth(pattern, 0) = 0
    /\ \A i \in 1..Len(pattern) :
          pattern[i].t = "ref" =>
              \E j \in 1..Len(pattern) :
                  pattern[j] = Named(pattern[i].key, pattern[i].idx)

\* Replus._build_pattern: the recursion as a whole, from a call at `depth`
RECURSIVE build_pattern(_, _, _, _, _, _, _)
build_pattern(pattern, template, src, groups, counter, noise, depth) ==
    IF depth > RecursionLimit
    THEN Result("RecursionError", pattern, groups, counter)
    ELSE IF FirstGroupMatch(pattern) /= 0
    THEN LET r == build_group(pattern[FirstGroupMatch(pattern)], pattern, template,
                              src, groups, counter)
         IN  IF r.status /= "ok" THEN r
             ELSE build_pattern(r.pattern, template, src, r.groups, r.counter,
                                noise, depth + 1)
    ELSE Result("ok", FinalPattern(pattern, noise), groups, counter)

\* lines 236-246: how the loop body ends for one template: "ok", or the
\* exception that _build_patterns wraps
TemplateOutcome(template, src, noise) ==
    LET r == build_pattern(template, template, src, <<>>,
                           Counter, noise, 1)
    IN  IF r.status /= "ok" THEN r.status
        ELSE IF EngineCompiles(r.pattern) THEN "ok" ELSE "regex.error"

-----------------------------------------------------------------------------
(* Loader: Replus._load_models on an in-memory mapping *)

\* dict.update
Merge(f, g) ==
    [x \in DOMAIN f \cup DOMAIN g |-> IF x \in DOMAIN g THEN g[x] ELSE f[x]]

\* mutant: a key that was loaded before is overwritten
RECURSIVE LoadBundlesUnchecked(_, _)
LoadBundlesUnchecked(st, i) ==
    IF i > Len(st.input) THEN st
    ELSE LET b == st.input[i]
         IN  LoadBundlesUnchecked(
                 [status |-> "ok",
                  input |-> [st.input EXCEPT ![i] = [b EXCEPT !.hasRun = FALSE,
                                                              !.run = <<>>]],
                  all |-> IF b.hasRun /\ b.run /= <<>>
                          THEN Append(st.all, [key |-> b.name, templates |-> b.run])
                          ELSE st.all,
                  loaded |-> st.loaded \cup DOMAIN b.src,
                  src |-> Merge(st.src, b.src)], i + 1)

load_modelsUnchecked(bundles) ==
    LoadBundlesUnchecked([status |-> "ok", input |-> bundles, all |-> <<>>,
                          loaded |-> {}, src |-> <<>>], 1)

\* lines 359-370, from the i-th bundle on; st carries patterns_src,
\* patterns_all, loaded and the caller's mapping as the loop leaves them
RECURSIVE LoadBundles(_, _)
LoadBundles(st, i) ==
    IF i > Len(st.input) THEN st
    ELSE LET b == st.input[i]
             \* config_obj.pop("$PATTERNS", None) acts on the caller's dict
             inp == [st.input EXCEPT ![i] = [b EXCEPT !.hasRun = FALSE, !.run = <<>>]]
             all == IF b.hasRun /\ b.run /= <<>>
                    THEN Append(st.all, [key |-> b.name, templates |-> b.run])
                    ELSE st.all
         IN  IF \E k \in DOMAIN b.src : k \in st.loaded
             THEN [st EXCEPT !.status = "KeyError", !.input = inp, !.all = all]
             ELSE LoadBundles([status |-> "ok",
                               input |-> inp,
                               all |-> all,
                               loaded |-> st.loaded \cup DOMAIN b.src,
                               src |-> Merge(st.src, b.src)], i + 1)

load_models(bundles) ==
    LoadBundles([status |-> "ok", input |-> bundles, all |-> <<>>,
                 loaded |-> {}, src |-> <<>>], 1)

-----------------------------------------------------------------------------
(* Pattern registry: Replus.__init__ and Replus._build_patterns *)

NoError == [kind |-> "", key |-> "", cause |-> ""]

\* the (key, template) pairs in the order the two for loops visit them
RECURSIVE Flatten(_)
Flatten(all) ==
    IF all = <<>> THEN <<>>
    ELSE [i \in 1..Len(all[1].templates) |->
             [key |-> all[1].key, template |-> all[1].templates[i]]]
         \o Flatten(Tail(all))

\* mutant: the error of one template is swallowed and the loop goes on
BuildErrorSwallowed(key, cause) == [pc |-> "loop", error |-> NoError]

\* lines 245-246: any exception becomes a PatternBuildException that names
\* the pattern type and carries the arguments of the exception caught
BuildError(key, cause) ==
    [pc |-> "failed",
     error |-> [kind |-> "PatternBuildException", key |-> key, cause |-> cause]]

\* lines 238-244: what is appended to self.patterns
CompiledPattern(key, pattern, template) ==
    [key |-> key, pattern |-> pattern, template |-> template]

-----------------------------------------------------------------------------
(* Query surface: Replus.parse and Replus.search *)

\* mutant: exclude is ignored when filters is given
RetainedFiltersFirst(k, filters, exclude) ==
    IF filters /= {} THEN k \in filters ELSE k \notin exclude

\* line 139: whether the patterns of type k are run
Retained(k, filters, exclude) ==
    ~((filters /= {} /\ k \notin filters) \/ k \in exclude)

\* lines 141-155: the Match objects, in the order they are appended; found[i]
\* is what regex.finditer yields for the i-th pattern of the registry
RECURSIVE Collect(_, _, _, _)
Collect(pats, found, i, acc) ==
    IF i > Len(pats) THEN acc
    ELSE Collect(pats, found, i + 1,
                 acc \o [j \in 1..Len(found[i]) |->
                            [type |-> pats[i].key,
                             pat |-> i,
                             start |-> found[i][j].start,
                             end |-> found[i][j].end,
                             id |-> Len(acc) + j]])

\* mutant: overlaps are purged within each pattern type, not across them
RECURSIVE PurgePerType(_, _)
PurgePerType(ms, types) ==
    IF types = {} THEN <<>>
    ELSE LET k == CHOOSE x \in types : TRUE
         IN  purge_overlaps(SelectSeq(ms, LAMBDA m : m.type = k))
             \o PurgePerType(ms, types \ {k})

parsePerType(pats, found, overlapped) ==
    LET ms == Collect(pats, found, 1, <<>>)
    IN  IF ~overlapped
        THEN SortByStart(PurgePerType(ms, {ms[i].type : i \in 1..Len(ms)}))
        ELSE SortByStart(ms)

\* lines 137-159: what parse returns
parse(pats, found, overlapped) ==
    LET ms == Collect(pats, found, 1, <<>>)
    IN  IF ~overlapped THEN purge_overlaps(ms) ELSE SortByStart(ms)

\* mutant: search returns the last Match of the list
searchLast(pats, found, overlapped) ==
    LET ms == parse(pats, found, overlapped)
    IN  IF ms = <<>> THEN <<>> ELSE <<ms[Len(ms)]>>

\* lines 216-231: what search returns: the first Match, or None (<<>>)
search(pats, found, overlapped) ==
    LET ms == parse(pats, found, overlapped)
    IN  IF ms = <<>> THEN <<>> ELSE <<ms[1]>>

\* line 154: self.all_groups[template] on a defaultdict(list) files an empty
\* list under a template it does not hold yet
RECURSIVE TouchGroups(_, _, _, _)
TouchGroups(groups, pats, found, i) ==
    IF i > Len(pats) THEN groups
    ELSE TouchGroups(
             IF found[i] /= <<>> /\ pats[i].template \notin DOMAIN groups
             THEN [x \in DOMAIN groups \cup {pats[i].template} |->
                      IF x \in DOMAIN groups THEN groups[x] ELSE <<>>]
             ELSE groups,
             pats, found, i + 1)

-----------------------------------------------------------------------------
(* Inputs of the engine *)

TypeNames == {"t1", "t2"}

\* the pattern sources: a = x|y, b = {{a}}z, c = {{c}} (refers to itself),
\* o = x or nothing, p = {{a}}|z, and n under the atomic and the non-capturing
\* prefix only
SourceTable ==
    [k \in {SrcKey("", "a"), SrcKey("", "b"), SrcKey("", "c"), SrcKey("", "o"),
            SrcKey("", "p"), SrcKey("?>", "n"), SrcKey("?:", "n")} |->
        IF k = SrcKey("", "a") THEN << <<Lit("x")>>, <<Lit("y")>> >>
        ELSE IF k = SrcKey("", "b") THEN << <<Ph("", "a"), Lit("z")>> >>
        ELSE IF k = SrcKey("", "c") THEN << <<Ph("", "c")>> >>
        ELSE IF k = SrcKey("", "o") THEN << <<Lit("x")>>, <<>> >>
        ELSE IF k = SrcKey("", "p") THEN << <<Ph("", "a")>>, <<Lit("z")>> >>
        ELSE IF k = SrcKey("?>", "n") THEN << <<Lit("e")>> >>
        ELSE << <<Lit("d")>> >>]

\* the documented example "{{abg}} {{abg}} {{#abg}} {{#abg@2}}", with a for abg
ExampleTemplate ==
    << Ph("", "a"), Lit(" "), Ph("", "a"), Lit(" "), Ph("#", "a"), Lit(" "),
       PhAt("#", "a", 2) >>

\* the template texts the constructor is tried on
BuildAlphabet ==
    { Ph("", "a"), Ph("", "b"), Ph("", "c"), Ph("", "n"), Ph("", "zz"),
      Ph("#", "a"), PhAt("#", "a", 2), PhAt("", "a", 1), PhAt("", "n", 1),
      Ph("?:", "a"), Ph("?:", "zz"), Ph("?u:", "a"),
      Lit("("), Lit(" ") }

\* the template texts of the engines that are queried
QueryAlphabet == { Ph("", "a"), Ph("?:", "a"), Lit("(") }

RECURSIVE SumSeq(_)
SumSeq(sh) == IF sh = <<>> THEN 0 ELSE Head(sh) + SumSeq(Tail(sh))

\* the ways to cut `budget` tokens or fewer into at most MaxTemplates templates
Shapes(budget) ==
    {sh \in SeqsUpTo(1..budget, MaxTemplates) : SumSeq(sh) <= budget}

\* the token sequence `flat` cut into templates of the lengths of `sh`
RECURSIVE Cut(_, _)
Cut(flat, sh) ==
    IF sh = <<>> THEN <<>>
    ELSE <<SubSeq(flat, 1, Head(sh))>>
         \o Cut(SubSeq(flat, Head(sh) + 1, Len(flat)), Tail(sh))

\* one entry of the mapping passed to Replus(...): its name, its "$PATTERNS"
\* list and its other keys
Bundle(name, run, src) == [name |-> name, hasRun |-> TRUE, run |-> run, src |-> src]

\* the mapping: two pattern types, the first k templates under the first
Config(ts, k) ==
    << Bundle("t1", SubSeq(ts, 1, k), SourceTable),
       Bundle("t2", SubSeq(ts, k + 1, Len(ts)), <<>>) >>

NoCall == [op |-> "none", filters |-> {}, exclude |-> {}, overlapped |-> FALSE,
           found |-> <<>>, result |-> <<>>]

NoCur == [n |-> 0, pattern |-> <<>>, depth |-> 0]

\* no engine was built before from the mapping
NoPrior == [built |-> FALSE, patterns_all |-> <<>>, patterns |-> <<>>,
            all_groups |-> <<>>]

PurgeIdle ==
    /\ arg = <<>>
    /\ matches = <<>>
    /\ purged = <<>>
    /\ pidx = 0
    /\ ppc = "idle"
    /\ ret = <<>>

NoMatch == [type |-> "", names |-> <<>>, start |-> 0, end |-> 0, caps |-> <<>>]

NoNav == [op |-> "none", key |-> NONE, root |-> FALSE, raised |-> "", result |-> <<>>]

\* no object to make a call on
NoRecv == [kind |-> "None", name |-> [key |-> "", n |-> 0], rep_index |-> 0,
           start |-> 0, end |-> 0]

\* no Match is held
TreeIdle ==
    /\ string = <<>>
    /\ match = NoMatch
    /\ recv = NoRecv
    /\ nav = NoNav

\* lines 68-72: the fields before _load_models runs
InitEngine(A, budget) ==
    /\ \/ \E sh \in Shapes(budget) :
             \E flat \in [1..SumSeq(sh) -> A] :
                 \E k \in (IF sh = <<>> THEN {0} ELSE 1..Len(sh)) :
                     input = Config(Cut(flat, sh), k)
       \/ input = Config(<<ExampleTemplate>>, 1)
    /\ whitespace_noise \in {NONE, "~"}
    /\ patterns_src = <<>>
    /\ patterns_all = <<>>
    /\ group_counter = Counter
    /\ patterns = <<>>
    /\ all_groups = <<>>
    /\ pc = "new"
    /\ cur = NoCur
    /\ error = NoError
    /\ call = NoCall
    /\ prior = NoPrior
    /\ PurgeIdle
    /\ TreeIdle

\* no engine is under construction
EngineIdle ==
    /\ input = <<>>
    /\ whitespace_noise = NONE
    /\ patterns_src = <<>>
    /\ patterns_all = <<>>
    /\ group_counter = Counter
    /\ patterns = <<>>
    /\ all_groups = <<>>
    /\ pc = "idle"
    /\ cur = NoCur
    /\ error = NoError
    /\ call = NoCall
    /\ prior = NoPrior

-----------------------------------------------------------------------------
(* Replus.__init__, step by step *)

\* the template the loops of _build_patterns stand at
CurEntry == Flatten(patterns_all)[cur.n]

\* line 73: _load_models
Load ==
    /\ pc = "new"
    /\ LET r == load_models(input)
       IN  /\ input' = r.input
           /\ IF r.status = "ok"
              THEN /\ patterns_src' = r.src
                   /\ patterns_all' = r.all
                   /\ pc' = "loop"
                   /\ UNCHANGED error
              ELSE /\ pc' = "failed"
                   /\ error' = [kind |-> "KeyError", key |-> "", cause |-> ""]
                   /\ UNCHANGED <<patterns_src, patterns_all>>
    /\ UNCHANGED <<whitespace_noise, group_counter, patterns, all_groups, cur, call>>
    /\ UNCHANGED purgeVars
    /\ UNCHANGED treeVars
    /\ UNCHANGED prior

\* lines 234-236: the next template, with a fresh counter; after the last
\* one __init__ returns
BuildNext ==
    /\ pc = "loop"
    /\ IF cur.n < Len(Flatten(patterns_all))
       THEN /\ cur' = [n |-> cur.n + 1,
                       pattern |-> Flatten(patterns_all)[cur.n + 1].template,
                       depth |-> 1]
            /\ group_counter' = Counter
            /\ pc' = "expand"
       ELSE /\ pc' = "ready"
            /\ UNCHANGED <<cur, group_counter>>
    /\ UNCHANGED <<input, whitespace_noise, patterns_src, patterns_all, patterns,
                   all_groups, error, call>>
    /\ UNCHANGED purgeVars
    /\ UNCHANGED treeVars
    /\ UNCHANGED prior

\* lines 249-250: one pass of _build_pattern that finds a placeholder,
\* expands it with _build_group and recurses
BuildGroup ==
    /\ pc = "expand"
    /\ FirstGroupMatch(cur.pattern) /= 0
    /\ LET gm == cur.pattern[FirstGroupMatch(cur.pattern)]
           r == build_group(gm, cur.pattern, CurEntry.template, patterns_src,
                            all_groups, group_counter)
           status == IF r.status /= "ok" THEN r.status
                     ELSE IF cur.depth + 1 > RecursionLimit THEN "RecursionError"
                     ELSE "ok"
       IN  /\ all_groups' = r.groups
           /\ group_counter' = r.counter
           /\ IF status = "ok"
              THEN /\ cur' = [cur EXCEPT !.pattern = r.pattern, !.depth = @ + 1]
                   /\ UNCHANGED <<pc, error>>
              ELSE /\ pc' = BuildError(CurEntry.key, status).pc
                   /\ error' = BuildError(CurEntry.key, status).error
                   /\ UNCHANGED cur
    /\ UNCHANGED <<input, whitespace_noise, patterns_src, patterns_all, patterns, call>>
    /\ UNCHANGED purgeVars
    /\ UNCHANGED treeVars
    /\ UNCHANGED prior

\* lines 251-253 and 238-244: no placeholder is left; the pattern is
\* rewritten for whitespace, compiled by the engine and appended
BuildFinish ==
    /\ pc = "expand"
    /\ FirstGroupMatch(cur.pattern) = 0
    /\ LET final == FinalPattern(cur.pattern, whitespace_noise)
       IN  IF EngineCompiles(final)
           THEN /\ patterns' = Append(patterns,
                                      CompiledPattern(CurEntry.key, final, CurEntry.template))
                /\ cur' = [cur EXCEPT !.pattern = final]
                /\ pc' = "loop"
                /\ UNCHANGED error
           ELSE /\ pc' = BuildError(CurEntry.key, "regex.error").pc
                /\ error' = BuildError(CurEntry.key, "regex.error").error
                /\ UNCHANGED <<patterns, cur>>
    /\ UNCHANGED <<input, whitespace_noise, patterns_src, patterns_all, group_counter,
                   all_groups, call>>
    /\ UNCHANGED purgeVars
    /\ UNCHANGED treeVars
    /\ UNCHANGED prior

-----------------------------------------------------------------------------
(* Queries on a constructed engine *)

TextSpans == {sp \in [start : 0..TextLen, end : 0..TextLen] : sp.start <= sp.end}

\* regex.finditer (the external engine) on one pattern: successive matches
\* do not overlap, or with overlapped=True start at successive positions
EngineRuns(overlapped) ==
    {r \in SeqsUpTo(TextSpans, MaxMatches) :
        \A i \in 1..(Len(r) - 1) :
            IF overlapped THEN r[i + 1].start > r[i].start
            ELSE r[i + 1].start >= r[i].end /\ r[i + 1] /= r[i]}

RECURSIVE TotalLen(_)
TotalLen(f) == IF f = <<>> THEN 0 ELSE Len(Head(f)) + TotalLen(Tail(f))

\* what the engine may find, pattern by pattern; it is run on the retained
\* patterns only
Findings(filters, exclude, overlapped) ==
    {f \in [1..Len(patterns) -> EngineRuns(overlapped)] :
        /\ \A i \in 1..Len(patterns) :
              ~Retained(patterns[i].key, filters, exclude) => f[i] = <<>>
        /\ TotalLen(f) <= MaxMatches}

\* one call; the caller holds its result until it drops it
Query(op) ==
    /\ pc = "ready"
    /\ call = NoCall
    /\ \E filters \in SUBSET TypeNames, exclude \in SUBSET TypeNames,
          overlapped \in BOOLEAN :
          \E found \in Findings(filters, exclude, overlapped) :
              /\ call' = [op |-> op, filters |-> filters, exclude |-> exclude,
                          overlapped |-> overlapped, found |-> found,
                          result |-> IF op = "parse"
                                     THEN parse(patterns, found, overlapped)
                                     ELSE search(patterns, found, overlapped)]
              /\ all_groups' = TouchGroups(all_groups, patterns, found, 1)
    /\ UNCHANGED <<input, whitespace_noise, patterns_src, patterns_all, group_counter,
                   patterns, pc, cur, error>>
    /\ UNCHANGED purgeVars
    /\ UNCHANGED treeVars
    /\ UNCHANGED prior

Parse == Query("parse")

Search == Query("search")

\* the caller drops the result of the call; the engine is as the call left it
Discard ==
    /\ pc = "ready"
    /\ call /= NoCall
    /\ call' = NoCall
    /\ UNCHANGED <<input, whitespace_noise, patterns_src, patterns_all, group_counter,
                   patterns, all_groups, pc, cur, error>>
    /\ UNCHANGED purgeVars
    /\ UNCHANGED treeVars
    /\ UNCHANGED prior

-----------------------------------------------------------------------------
(* Specifications *)

\* construction only, on the wide set of templates
InitBuild == InitEngine(BuildAlphabet, MaxTokens)

NextBuild == Load \/ BuildNext \/ BuildGroup \/ BuildFinish

SpecBuild == InitBuild /\ [][NextBuild]_vars

\* construction, then any sequence of parse and search calls
Init == InitEngine(QueryAlphabet, QueryTokens)

Next == Load \/ BuildNext \/ BuildGroup \/ BuildFinish \/ Parse \/ Search \/ Discard

Spec == Init /\ [][Next]_vars

-----------------------------------------------------------------------------
(* One call of purge_overlaps, step by step *)

Spans == {sp \in [start : 0..MaxPos, end : 0..MaxPos] : sp.start <= sp.end}

\* a list of distinct objects: the i-th object of the list carries id i
WithIds(s) == [i \in 1..Len(s) |-> [id |-> i, start |-> s[i].start, end |-> s[i].end]]

SpanOf(m) == <<m.start, m.end>>

SpansOf(s) == [i \in 1..Len(s) |-> SpanOf(s[i])]

\* the spans of the documented example: (0,5), (3,10), (12,15)
ExampleSpans ==
    << [start |-> 0, end |-> 5], [start |-> 3, end |-> 10], [start |-> 12, end |-> 15] >>

PurgeInputs == {WithIds(s) : s \in SeqsUpTo(Spans, MaxSpans) \cup {ExampleSpans}}

InitPurge ==
    /\ arg \in PurgeInputs
    /\ matches = arg
    /\ purged = <<>>
    /\ pidx = 0
    /\ ppc = "call"
    /\ ret = <<>>
    /\ EngineIdle
    /\ TreeIdle

\* lines 317-321: sort, the early return, the first element
PurgeEnter ==
    /\ ppc = "call"
    /\ matches' = SortByStart(matches)
    /\ IF Len(matches) <= 1
       THEN /\ ret' = matches'
            /\ ppc' = "done"
            /\ UNCHANGED <<purged, pidx>>
       ELSE /\ purged' = <<matches'[1]>>
            /\ pidx' = 2
            /\ ppc' = "loop"
            /\ UNCHANGED ret
    /\ UNCHANGED arg
    /\ UNCHANGED engineVars
    /\ UNCHANGED treeVars

\* lines 322-329: one iteration of the loop
PurgeLoop ==
    /\ ppc = "loop"
    /\ pidx <= Len(matches)
    /\ purged' = SweepStep(purged, matches[pidx])
    /\ pidx' = pidx + 1
    /\ UNCHANGED <<arg, matches, ppc, ret>>
    /\ UNCHANGED engineVars
    /\ UNCHANGED treeVars

\* line 330
PurgeReturn ==
    /\ ppc = "loop"
    /\ pidx > Len(matches)
    /\ ret' = purged
    /\ ppc' = "done"
    /\ UNCHANGED <<arg, matches, purged, pidx>>
    /\ UNCHANGED engineVars
    /\ UNCHANGED treeVars

NextPurge == PurgeEnter \/ PurgeLoop \/ PurgeReturn

SpecPurge == InitPurge /\ [][NextPurge]_vars

-----------------------------------------------------------------------------
(* Claims about the overlap resolver, checked under SpecPurge *)

NonEmptyInput == \A i \in 1..Len(arg) : arg[i].start < arg[i].end

Overlap(a, b) == a.start < b.end /\ b.start < a.end

\* the indices of arg connected to those of S by a chain of pairwise overlaps
RECURSIVE RunFrom(_)
RunFrom(S) ==
    LET T == S \cup {j \in 1..Len(arg) : \E i \in S : Overlap(arg[i], arg[j])}
    IN  IF T = S THEN S ELSE RunFrom(T)

RunOf(i) == RunFrom({i})

MaxLenIn(R) == CHOOSE n \in {Length(arg[i]) : i \in R} :
                   \A j \in R : Length(arg[j]) <= n

\* i is a span of maximum length of its run
Maximal(i) == Length(arg[i]) = MaxLenIn(RunOf(i))

KeptSpan(i) == \E k \in 1..Len(ret) : SpanOf(ret[k]) = SpanOf(arg[i])

\* C2: the result of purge_overlaps is made of elements of its input, none
\* twice, in ascending start order, and each kept span starts at or after the
\* end of the kept span before it.  The same holds of the kept list during
\* the sweep.
NoOverlapSubList(r) ==
    /\ \A k \in 1..Len(r) : \E i \in 1..Len(arg) : r[k] = arg[i]
    /\ \A k, l \in 1..Len(r) : k /= l => r[k].id /= r[l].id
    /\ \A k, l \in 1..Len(r) : k < l => r[k].start <= r[l].start
    /\ \A k \in 1..(Len(r) - 1) : r[k + 1].start >= r[k].end

C2_PurgedIsNonOverlappingSubList ==
    /\ ppc = "loop" => NoOverlapSubList(purged)
    /\ ppc = "done" => NoOverlapSubList(ret)

\* C2 witness: a call that returned two of three spans, the third overlapping
C2_Witness ==
    /\ ppc = "done"
    /\ Len(arg) = 3
    /\ Len(ret) = 2
    /\ \E i, j \in 1..3 : i /= j /\ Overlap(arg[i], arg[j])

\* C3 as stated: every run keeps a span of its maximum length, and of two
\* equal-length maximal spans of a run that overlap each other the
\* earlier-starting one is kept.
C3_Original ==
    (ppc = "done" /\ NonEmptyInput) =>
        /\ \A i \in 1..Len(arg) :
              \E k \in 1..Len(ret) :
                  /\ \E j \in RunOf(i) : ret[k] = arg[j]
                  /\ Length(ret[k]) = MaxLenIn(RunOf(i))
        /\ \A i, j \in 1..Len(arg) :
              ( /\ Maximal(i) /\ Maximal(j)
                /\ Overlap(arg[i], arg[j])
                /\ arg[i].start < arg[j].start ) => KeptSpan(i)

\* C3 (amended): for non-empty spans, every run keeps a span of its maximum
\* length, and the earliest-starting span of maximum length of each run is
\* kept.
C3_RunKeepsEarliestLongest ==
    (ppc = "done" /\ NonEmptyInput) =>
        /\ \A i \in 1..Len(arg) :
              \E k \in 1..Len(ret) :
                  /\ \E j \in RunOf(i) : ret[k] = arg[j]
                  /\ Length(ret[k]) = MaxLenIn(RunOf(i))
        /\ \A i \in 1..Len(arg) :
              ( /\ Maximal(i)
                /\ \A j \in RunOf(i) : Maximal(j) => arg[i].start <= arg[j].start )
              => KeptSpan(i)

\* C3 witness: one run of three non-empty spans from which two are kept
C3_Witness ==
    /\ ppc = "done"
    /\ NonEmptyInput
    /\ Len(arg) = 3
    /\ RunOf(1) = {1, 2, 3}
    /\ Len(ret) = 2
    /\ \E i, j \in 1..3 : i /= j /\ Maximal(i) /\ Maximal(j) /\ Overlap(arg[i], arg[j])

\* C4: in the sweep a candidate m that starts before the end of the kept span
\* k replaces k exactly when m.end >= k.end and m is strictly longer; it is
\* dropped otherwise; the spans kept before k stay.  The documented example
\* (0,5), (3,10), (12,15) yields (3,10), (12,15).
C4_SweepRule ==
    /\ [][ (ppc = "loop" /\ pidx <= Len(matches) /\ pidx' = pidx + 1) =>
             LET k == Last(purged)
                 m == matches[pidx]
             IN  m.start < k.end =>
                    IF m.end >= k.end /\ Length(m) > Length(k)
                    THEN purged' = Append(Front(purged), m)
                    ELSE purged' = purged ]_vars
    /\ []( (ppc = "done" /\ SpansOf(arg) = SpansOf(ExampleSpans)) =>
             SpansOf(ret) = << <<3, 10>>, <<12, 15>> >> )

\* C4 witness: the example's call has returned, its first span replaced
C4_Witness ==
    /\ ppc = "done"
    /\ SpansOf(arg) = SpansOf(ExampleSpans)
    /\ Len(ret) = 2
    /\ ret[1].id = 2

-----------------------------------------------------------------------------
(* Claims about the template compiler and the registry, checked under      *)
(* SpecBuild                                                               *)

\* the names all_groups holds for a template (none when it has no entry)
Registered(groups, template) ==
    IF template \in DOMAIN groups THEN groups[template] ELSE <<>>

\* the named groups of key in a pattern, left to right
NamedOf(p, key) == SelectSeq(p, LAMBDA tok : tok.t = "named" /\ tok.key = key)

\* the names of the named groups of a pattern, left to right
NamesIn(p) ==
    LET named == SelectSeq(p, LAMBDA tok : tok.t = "named")
    IN  [i \in 1..Len(named) |-> Name(named[i].key, named[i].idx)]

CountTokens(p, kind) == Cardinality({i \in 1..Len(p) : p[i].t = kind})

\* the placeholder the next pass expands
NextGroupMatch == cur.pattern[FirstGroupMatch(cur.pattern)]

Expanding == pc = "expand" /\ FirstGroupMatch(cur.pattern) /= 0

\* C5 as stated: the i-th expansion (from 0) of a plain placeholder {{key}}
\* in one template registers key_i, i being the number of plain placeholders
\* of key expanded before it in that template.
C5_Original ==
    [][ ( /\ Expanding
          /\ NextGroupMatch = Ph("", NextGroupMatch.key)
          /\ SrcKey("", NextGroupMatch.key) \in DOMAIN patterns_src ) =>
            Registered(all_groups', CurEntry.template) =
                Append(Registered(all_groups, CurEntry.template),
                       Name(NextGroupMatch.key,
                            Len(NamedOf(cur.pattern, NextGroupMatch.key)))) ]_vars

\* the positions of the backreferences of a pattern, left to right
RefPositions(p) == SelectSeq([i \in 1..Len(p) |-> i], LAMBDA i : p[i].t = "ref")

\* the backreference placeholders of a template, left to right
RefPlaceholders(t) == SelectSeq(t, LAMBDA tok : tok.t = "ph" /\ tok.sp = "#")

\* C6 as stated: in every compiled pattern the backreference that stands for
\* {{#key@N}} (N = 1 without @N) refers to the name registered by the N-th
\* most recent plain occurrence of key before it, a name of the template's
\* registered list; a template with fewer than N such occurrences does not
\* compile.
C6_Original ==
    \A c \in 1..Len(patterns) :
        LET p == patterns[c].pattern
            refs == RefPositions(p)
            phs == RefPlaceholders(patterns[c].template)
        IN  /\ Len(refs) = Len(phs)
            /\ \A j \in 1..Len(refs) :
                  LET n == IF phs[j].at THEN phs[j].idx ELSE 1
                      before == NamedOf(SubSeq(p, 1, refs[j] - 1), phs[j].key)
                  IN  /\ Len(before) >= n
                      /\ p[refs[j]] =
                            BackRef(phs[j].key, before[Len(before) - n + 1].idx)
                      /\ \E k \in 1..Len(Registered(all_groups, patterns[c].template)) :
                            Registered(all_groups, patterns[c].template)[k] =
                                Name(p[refs[j]].key, p[refs[j]].idx)

\* the special markers the placeholder syntax is documented with: backreference,
\* non-capturing, atomic, lookahead, lookbehind, and the inline flags
\* i, m, s, u, x, l
DocumentedSpecials ==
    {"#", "?:", "?>", "?=", "?!", "?<=", "?<!", "?i:", "?m:", "?s:", "?u:", "?x:", "?l:"}

DocumentedPlaceholder(tok) == tok.t = "ph" /\ tok.sp \in ({""} \cup DocumentedSpecials)

\* C7 as stated: no compiled pattern holds a placeholder of the documented
\* syntax, whatever its marker.
C7_Original ==
    \A c \in 1..Len(patterns) :
        \A i \in 1..Len(patterns[c].pattern) :
            ~DocumentedPlaceholder(patterns[c].pattern[i])

\* the next pass expands a special-marker placeholder, or a plain placeholder
\* whose key the source table holds under a special-marker prefix only
ExpandsUnnamed ==
    /\ Expanding
    /\ \/ NextGroupMatch.sp \notin {"", "#"}
       \/ /\ NextGroupMatch.sp = ""
          /\ SrcKey("", NextGroupMatch.key) \notin DOMAIN patterns_src
          /\ \E i \in 1..Len(ImplicitPrefixes) :
                SrcKey(ImplicitPrefixes[i], NextGroupMatch.key) \in DOMAIN patterns_src

\* C8: expanding a special-marker placeholder, or a plain placeholder whose
\* key exists under a special-marker prefix only, leaves the registered names
\* as they were; the pass that succeeds emits a group that carries a marker
\* and adds no named group.
C8_SpecialRegistersNoName ==
    [][ ExpandsUnnamed =>
            /\ all_groups' = all_groups
            /\ pc' = "expand" =>
                  /\ CountTokens(cur'.pattern, "open") > CountTokens(cur.pattern, "open")
                  /\ CountTokens(cur'.pattern, "named") = CountTokens(cur.pattern, "named")
                  /\ CountTokens(cur'.pattern, "ph") < CountTokens(cur.pattern, "ph")
      ]_vars

\* C8 witness: a template compiled into marker groups only, no name registered
C8_Witness ==
    \E c \in 1..Len(patterns) :
        /\ CountTokens(patterns[c].pattern, "open") = 2
        /\ \E i \in 1..Len(patterns[c].template) : patterns[c].template[i] = Ph("", "n")
        /\ \E i \in 1..Len(patterns[c].template) : patterns[c].template[i] = Ph("?:", "a")
        /\ patterns[c].template \notin DOMAIN all_groups

\* C9 as stated: once built, the registry holds one compiled pattern per
\* (type, template) pair in declaration order, and the names looked up for
\* each compiled pattern are those registered while compiling that one
\* template, each once: the names of its named groups.
C9_Original ==
    pc = "ready" =>
        /\ Len(patterns) = Len(Flatten(patterns_all))
        /\ \A c \in 1..Len(patterns) :
              /\ patterns[c].key = Flatten(patterns_all)[c].key
              /\ patterns[c].template = Flatten(patterns_all)[c].template
              /\ Registered(all_groups, patterns[c].template) = NamesIn(patterns[c].pattern)

\* how compiling the c-th template on its own ends
OutcomeOf(c) ==
    TemplateOutcome(Flatten(patterns_all)[c].template, patterns_src, whitespace_noise)

\* C10: a failure of any template ends the construction with one
\* PatternBuildException that names the pattern type of the first template
\* (in declaration order) that fails and carries its cause; the templates
\* before it are compiled, none after it is; an engine is returned only when
\* every template compiled.
C10_FailFast ==
    /\ (pc = "failed" /\ error.kind /= "KeyError") =>
          /\ error.kind = "PatternBuildException"
          /\ cur.n \in 1..Len(Flatten(patterns_all))
          /\ OutcomeOf(cur.n) /= "ok"
          /\ \A c \in 1..(cur.n - 1) : OutcomeOf(c) = "ok"
          /\ error.key = Flatten(patterns_all)[cur.n].key
          /\ error.cause = OutcomeOf(cur.n)
          /\ Len(patterns) = cur.n - 1
    /\ pc = "ready" =>
          /\ error = NoError
          /\ Len(patterns) = Len(Flatten(patterns_all))
          /\ \A c \in 1..Len(patterns) : OutcomeOf(c) = "ok"
    /\ pc \in {"new", "loop", "expand"} => error = NoError

\* C10 witness: the second template failed after the first was compiled
C10_Witness ==
    /\ pc = "failed"
    /\ cur.n = 2
    /\ Len(patterns) = 1
    /\ error.kind = "PatternBuildException"
    /\ error.key = "t2"

-----------------------------------------------------------------------------
(* Claims about the query surface, checked under Spec *)

\* every match the engine found in the call, in the order parse appends them
AllFound == Collect(patterns, call.found, 1, <<>>)

\* C1: parse with overlapped=False returns purge_overlaps of the matches of
\* all retained pattern types taken together, so no two returned matches
\* overlap whatever their types; with overlapped=True it returns every match
\* of every retained pattern, sorted by start.
C1_ParseResolvesAcrossTypes ==
    call.op = "parse" =>
        /\ \A i \in 1..Len(patterns) :
              ~Retained(patterns[i].key, call.filters, call.exclude) =>
                  \A k \in 1..Len(call.result) : call.result[k].pat /= i
        /\ ~call.overlapped =>
              /\ call.result = purge_overlaps(AllFound)
              /\ \A k \in 1..(Len(call.result) - 1) :
                    call.result[k + 1].start >= call.result[k].end
        /\ call.overlapped =>
              /\ Len(call.result) = Len(AllFound)
              /\ \A m \in Range(AllFound) : m \in Range(call.result)
              /\ \A k \in 1..(Len(call.result) - 1) :
                    call.result[k].start <= call.result[k + 1].start

\* C1 witness: two pattern types matched overlapping spans and one is returned
C1_Witness ==
    /\ call.op = "parse"
    /\ ~call.overlapped
    /\ Len(AllFound) = 2
    /\ AllFound[1].type /= AllFound[2].type
    /\ AllFound[1].start < AllFound[2].end
    /\ AllFound[2].start < AllFound[1].end
    /\ Len(call.result) = 1

-----------------------------------------------------------------------------
(* Claims about the errors of the template compiler, checked under SpecBuild *)

\* the prefixes a key may be filed under, in the order they are documented
\* to be tried: non-capturing, atomic, the lookarounds, then the inline flags
DocumentedPrefixes ==
    <<"?:", "?>", "?!", "?=", "?<=", "?<!", "?i:", "?m:", "?s:", "?u:", "?x:", "?l:">>

\* the next pass expands a placeholder with no marker whose key the source
\* table does not hold under its plain name
ExpandsAbsentPlain ==
    /\ Expanding
    /\ NextGroupMatch.sp = ""
    /\ SrcKey("", NextGroupMatch.key) \notin DOMAIN patterns_src

\* the documented prefixes under which the source table holds the key
PrefixesHeld(key) ==
    {i \in 1..Len(DocumentedPrefixes) :
        SrcKey(DocumentedPrefixes[i], key) \in DOMAIN patterns_src}

FirstPrefixHeld(key) ==
    DocumentedPrefixes[CHOOSE i \in PrefixesHeld(key) : \A j \in PrefixesHeld(key) : i <= j]

\* C11 as stated: a placeholder with no marker whose key is absent under its
\* plain name and under every prefix fails the template with the unknown
\* template group error; otherwise the pass succeeds and the group emitted is
\* that of the first prefixed form that exists.
C11_Original ==
    [][ ExpandsAbsentPlain =>
            IF PrefixesHeld(NextGroupMatch.key) = {}
            THEN /\ pc' = "failed"
                 /\ error'.kind = "PatternBuildException"
                 /\ error'.cause = "UnknownTemplateGroup"
            ELSE /\ pc' = "expand"
                 /\ \E i \in 1..Len(cur'.pattern) :
                       cur'.pattern[i] = Open(FirstPrefixHeld(NextGroupMatch.key))
                 /\ CountTokens(cur'.pattern, "open") > CountTokens(cur.pattern, "open")
      ]_vars

\* C12 as stated: a placeholder with a special marker or the backreference
\* marker whose key the source table does not hold under its plain name fails
\* the template with the repeated/invalid special group error, which is not
\* the unknown template group error.
C12_Original ==
    [][ ( /\ Expanding
          /\ NextGroupMatch.sp /= ""
          /\ SrcKey("", NextGroupMatch.key) \notin DOMAIN patterns_src ) =>
            /\ pc' = "failed"
            /\ error'.kind = "PatternBuildException"
            /\ error'.cause = "RepeatedSpecialGroup"
            /\ error'.cause /= "UnknownTemplateGroup"
      ]_vars

-----------------------------------------------------------------------------
(* Claims about the pattern types a query runs, checked under Spec *)

\* C20: every Match parse or search returns has a pattern type that is in
\* filters when filters is not empty and that is not in exclude (so a type
\* named in both is removed), and the engine is run on no pattern of another
\* type; with neither given every pattern of the registry is run.
C20_FiltersAndExclude ==
    call.op \in {"parse", "search"} =>
        /\ \A k \in 1..Len(call.result) :
              /\ call.filters /= {} => call.result[k].type \in call.filters
              /\ call.result[k].type \notin call.exclude
        /\ \A i \in 1..Len(patterns) :
              call.found[i] /= <<>> =>
                  /\ call.filters /= {} => patterns[i].key \in call.filters
                  /\ patterns[i].key \notin call.exclude
        /\ (call.filters = {} /\ call.exclude = {}) =>
              \A i \in 1..Len(patterns) : Retained(patterns[i].key, {}, {})

\* C20 witness (filters and exclude): a type named in both is removed and the
\* other type of filters is returned
C20_Witness ==
    /\ call.op = "parse"
    /\ call.filters = {"t1", "t2"}
    /\ call.exclude = {"t2"}
    /\ Len(patterns) = 2
    /\ patterns[2].key = "t2"
    /\ Len(call.result) = 1
    /\ call.result[1].type = "t1"

-----------------------------------------------------------------------------
(* The engine on a compiled pattern: regex.finditer on the constructs the   *)
(* compiler emits (literals, named and non-capturing groups, alternation,    *)
(* backreferences) and "+" after a group, with backtracking in priority     *)
(* order and every capture of a repeated group kept                          *)

Plus == Lit("+")

Item(kind, c, name, alts, plus) ==
    [kind |-> kind, c |-> c, name |-> name, alts |-> alts, plus |-> plus]

\* the pattern from token i on, read as items up to "|", ")" or the end, and
\* as alternatives up to ")" or the end
RECURSIVE ParseItems(_, _), ParseAlts(_, _)
ParseItems(pattern, i) ==
    IF i > Len(pattern) \/ pattern[i].t \in {"pipe", "close"}
    THEN [items |-> <<>>, next |-> i]
    ELSE IF pattern[i].t \in {"named", "open"}
    THEN LET body == ParseAlts(pattern, i + 1)
             j == body.next + 1
             plus == j <= Len(pattern) /\ pattern[j] = Plus
             rest == ParseItems(pattern, IF plus THEN j + 1 ELSE j)
             kind == IF pattern[i].t = "named" THEN "named" ELSE "group"
         IN  [items |-> <<Item(kind, "", Name(pattern[i].key, pattern[i].idx),
                               body.alts, plus)>> \o rest.items,
              next |-> rest.next]
    ELSE LET rest == ParseItems(pattern, i + 1)
             kind == IF pattern[i].t = "ref" THEN "ref" ELSE "lit"
         IN  [items |-> <<Item(kind, pattern[i].key,
                               Name(pattern[i].key, pattern[i].idx), <<>>, FALSE)>>
                            \o rest.items,
              next |-> rest.next]

ParseAlts(pattern, i) ==
    LET first == ParseItems(pattern, i)
    IN  IF first.next <= Len(pattern) /\ pattern[first.next].t = "pipe"
        THEN LET rest == ParseAlts(pattern, first.next + 1)
             IN  [alts |-> <<first.items>> \o rest.alts, next |-> rest.next]
        ELSE [alts |-> <<first.items>>, next |-> first.next]

\* the names of the capture groups of a compiled pattern
GroupNames(pattern) ==
    {Name(pattern[i].key, pattern[i].idx) :
        i \in {j \in 1..Len(pattern) : pattern[j].t = "named"}}

Span(start, end) == [start |-> start, end |-> end]

\* one way to match from a position: where it ends and what was captured
Way(pos, caps) == [pos |-> pos, caps |-> caps]

\* the engine records a capture of a group
Capture(caps, name, start, end) ==
    [caps EXCEPT ![name] = Append(@, Span(start, end))]

\* the ways to match an item, the items it[k..] and the alternatives
\* alts[k..] of a group at position pos of txt, in the order a backtracking
\* engine tries them
RECURSIVE MatchItem(_, _, _, _), MatchItems(_, _, _, _, _), MatchAlts(_, _, _, _, _),
          MatchRest(_, _, _, _, _), MatchOnce(_, _, _, _), MatchMore(_, _, _, _)
MatchOnce(it, txt, pos, caps) ==
    LET ways == MatchAlts(it.alts, 1, txt, pos, caps)
    IN  [w \in 1..Len(ways) |->
            IF it.kind = "named"
            THEN Way(ways[w].pos, Capture(ways[w].caps, it.name, pos, ways[w].pos))
            ELSE ways[w]]

\* "+": after each way to match once, first the ways that go round again,
\* then that way itself
MatchMore(it, txt, ways, w) ==
    IF w > Len(ways) THEN <<>>
    ELSE (IF ways[w].pos > ways[w].start
          THEN MatchItem(it, txt, ways[w].pos, ways[w].caps) ELSE <<>>)
         \o <<Way(ways[w].pos, ways[w].caps)>>
         \o MatchMore(it, txt, ways, w + 1)

MatchItem(it, txt, pos, caps) ==
    IF it.kind = "lit"
    THEN IF pos < Len(txt) /\ txt[pos + 1] = it.c THEN <<Way(pos + 1, caps)>> ELSE <<>>
    ELSE IF it.kind = "ref"
    THEN IF it.name \in DOMAIN caps /\ caps[it.name] /= <<>>
         THEN LET last == caps[it.name][Len(caps[it.name])]
                  n == last.end - last.start
              IN  IF pos + n <= Len(txt)
                     /\ SubSeq(txt, pos + 1, pos + n) = SubSeq(txt, last.start + 1, last.end)
                  THEN <<Way(pos + n, caps)>> ELSE <<>>
         ELSE <<>>
    ELSE LET once == MatchOnce(it, txt, pos, caps)
         IN  IF it.plus
             THEN MatchMore(it, txt,
                            [w \in 1..Len(once) |->
                                [pos |-> once[w].pos, caps |-> once[w].caps,
                                 start |-> pos]], 1)
             ELSE once

\* the ways to go on with it[k..] after each of the ways to match it[k - 1]
MatchRest(it, k, txt, ways, w) ==
    IF w > Len(ways) THEN <<>>
    ELSE MatchItems(it, k, txt, ways[w].pos, ways[w].caps)
         \o MatchRest(it, k, txt, ways, w + 1)

MatchItems(it, k, txt, pos, caps) ==
    IF k > Len(it) THEN <<Way(pos, caps)>>
    ELSE MatchRest(it, k + 1, txt, MatchItem(it[k], txt, pos, caps), 1)

MatchAlts(alts, k, txt, pos, caps) ==
    IF k > Len(alts) THEN <<>>
    ELSE MatchItems(alts[k], 1, txt, pos, caps) \o MatchAlts(alts, k + 1, txt, pos, caps)

\* the matches of the pattern that start at position pos
MatchAt(pattern, txt, pos) ==
    MatchAlts(ParseAlts(pattern, 1).alts, 1, txt, pos,
              [n \in GroupNames(pattern) |-> <<>>])

\* the first match of regex.finditer(pattern, string): the leftmost start at
\* which the pattern matches, with the first way to match there; <<>> if none
RECURSIVE FindFrom(_, _, _)
FindFrom(pattern, txt, pos) ==
    IF pos > Len(txt) THEN <<>>
    ELSE LET ways == MatchAt(pattern, txt, pos)
         IN  IF ways /= <<>>
             THEN <<[start |-> pos, end |-> ways[1].pos, caps |-> ways[1].caps]>>
             ELSE FindFrom(pattern, txt, pos + 1)

-----------------------------------------------------------------------------
(* Match and Group: the navigation of the captures of one match *)

\* Match.__init__: the type, the registered names of the template (the list
\* object of all_groups itself), the span and the engine's match
MatchObject(type, names, found) ==
    [type |-> type, names |-> names, start |-> found.start, end |-> found.end,
     caps |-> found.caps]

\* the Match as the object a call is made on
Root(mm) ==
    [kind |-> "Match", name |-> Name("", 0), rep_index |-> 0,
     start |-> mm.start, end |-> mm.end]

\* Group.__init__: start and end are those of the rep_index-th capture
GroupObject(mm, name, rep_index) ==
    [kind |-> "Group", name |-> name, rep_index |-> rep_index,
     start |-> mm.caps[name][rep_index + 1].start,
     end |-> mm.caps[name][rep_index + 1].end]

\* Group.key: the name with its numeric suffix stripped
GroupKey(name) == name.key

\* lines 615-617 and 692-694: a Group for each capture of the name whose span
\* lies in the span of the object asked
Occurrences(mm, self, name) ==
    SelectSeq([j \in 1..Len(mm.caps[name]) |-> GroupObject(mm, name, j - 1)],
              LAMBDA g : self.start <= g.start /\ g.end <= self.end)

\* list.index: the first position of x in the list
IndexOf(list, x) ==
    CHOOSE i \in 1..Len(list) : list[i] = x /\ \A j \in 1..(i - 1) : list[j] /= x

\* is_next(g1, g2), lines 677-678
is_next(mm, g1, g2) == IndexOf(mm.names, g1) > IndexOf(mm.names, g2)

\* mutant: the span test is dropped
ChildrenOfNoSpan(mm, self, name) ==
    IF name \notin DOMAIN mm.caps \/ mm.caps[name] = <<>> THEN <<>>
    ELSE IF self.kind = "Group" /\ (self.name = name \/ ~is_next(mm, name, self.name))
    THEN <<>>
    ELSE [j \in 1..Len(mm.caps[name]) |-> GroupObject(mm, name, j - 1)]

\* the body of the while loop for one name: lines 612-619 on a Match, lines
\* 688-696 on a Group (which skips its own name and the names registered
\* before it)
ChildrenOf(mm, self, name) ==
    IF name \notin DOMAIN mm.caps \/ mm.caps[name] = <<>> THEN <<>>
    ELSE IF self.kind = "Group" /\ (self.name = name \/ ~is_next(mm, name, self.name))
    THEN <<>>
    ELSE Occurrences(mm, self, name)

\* group_query is None: one pass of the while loop for each name of
\* all_group_names, from the i-th on
RECURSIVE ByNames(_, _, _)
ByNames(mm, self, i) ==
    IF i > Len(mm.names) THEN <<>>
    ELSE ChildrenOf(mm, self, mm.names[i]) \o ByNames(mm, self, i + 1)

\* group_query given: key_0, key_1, ... until the engine raises IndexError
\* for a name the pattern does not define
RECURSIVE ByKey(_, _, _, _)
ByKey(mm, self, key, i) ==
    IF Name(key, i) \notin DOMAIN mm.caps THEN <<>>
    ELSE ChildrenOf(mm, self, Name(key, i)) \o ByKey(mm, self, key, i + 1)

\* mutant: root=True is ignored
groupsNoRoot(mm, self, group_query, root) ==
    SortByStart(IF group_query = NONE THEN ByNames(mm, self, 1)
                ELSE ByKey(mm, self, group_query, 0))

\* Match.groups (lines 604-626) and Group.groups (lines 680-703)
groups(mm, self, group_query, root) ==
    LET sorted == SortByStart(IF group_query = NONE THEN ByNames(mm, self, 1)
                              ELSE ByKey(mm, self, group_query, 0))
    IN  IF root THEN purge_overlaps(sorted) ELSE sorted

\* AbstractMatch.group, first, last: a list of one Group, or <<>> for None
group(mm, self, group_name) ==
    LET found == groups(mm, self, group_name, FALSE)
    IN  IF found = <<>> THEN <<>> ELSE <<found[1]>>

first(mm, self) ==
    LET found == groups(mm, self, NONE, FALSE)
    IN  IF found = <<>> THEN <<>> ELSE <<found[1]>>

last(mm, self) ==
    LET found == groups(mm, self, NONE, FALSE)
    IN  IF found = <<>> THEN <<>> ELSE <<found[Len(found)]>>

\* what a call leaves: the exception it raised ("" for none) and its value
Returned(value) == [raised |-> "", result |-> <<value>>]

Raised(exception) == [raised |-> exception, result |-> <<>>]

\* mutant: reps of a name captured once is the Group itself
repsOfOne(mm, self) ==
    [i \in 1..Len(mm.caps[self.name]) |-> GroupObject(mm, self.name, i - 1)]

\* Group.reps (lines 713-718)
reps(mm, self) ==
    IF Len(mm.caps[self.name]) > 1
    THEN [i \in 1..Len(mm.caps[self.name]) |-> GroupObject(mm, self.name, i - 1)]
    ELSE <<>>

\* AbstractMatch.span (lines 476-485) with rep_index left to its default:
\* the rep_index of the object asked (0 on a Match) is handed to the Group
\* that group(group_name) resolves to.  start and end (lines 426-460) are the
\* same on match.starts and match.ends
span(mm, self, group_name) ==
    IF group_name /= NONE
    THEN IF group(mm, self, group_name) /= <<>>
         THEN LET g == group(mm, self, group_name)[1]
              IN  IF self.rep_index < Len(mm.caps[g.name])
                  THEN Returned(mm.caps[g.name][self.rep_index + 1])
                  ELSE Raised("IndexError")
         ELSE Raised("NoSuchGroup")
    ELSE IF self.kind = "Group"
         THEN Returned(mm.caps[self.name][self.rep_index + 1])
         ELSE Returned(Span(mm.start, mm.end))

\* Match.value (match.group()) and Group.value (match.captures(name)[rep_index]):
\* the text the engine matched there
Value(mm, txt, self) ==
    IF self.kind = "Group"
    THEN SubSeq(txt, mm.caps[self.name][self.rep_index + 1].start + 1,
                mm.caps[self.name][self.rep_index + 1].end)
    ELSE SubSeq(txt, mm.start + 1, mm.end)

\* line 404: the key of o["groups"] a Group is appended under
FiledUnder(g) == GroupKey(g.name)

\* AbstractMatch.serialize (lines 394-406)
RECURSIVE serialize(_, _, _)
serialize(mm, txt, self) ==
    LET roots == groups(mm, self, NONE, TRUE)
        keys == {FiledUnder(roots[i]) : i \in 1..Len(roots)}
    IN  [kind |-> self.kind,
         type |-> IF self.kind = "Match" THEN mm.type ELSE "",
         key |-> IF self.kind = "Group" THEN GroupKey(self.name) ELSE "",
         name |-> self.name,
         offset |-> Span(self.start, self.end),
         value |-> Value(mm, txt, self),
         groups |-> [k \in keys |->
                        LET under == SelectSeq(roots, LAMBDA g : FiledUnder(g) = k)
                        IN  [i \in 1..Len(under) |-> serialize(mm, txt, under[i])]]]

\* AbstractMatch.start (lines 426-435) and end (lines 451-460): as span, on
\* match.starts and match.ends
start(mm, self, group_name) ==
    LET r == span(mm, self, group_name)
    IN  IF r.raised /= "" THEN r ELSE Returned(r.result[1].start)

end(mm, self, group_name) ==
    LET r == span(mm, self, group_name)
    IN  IF r.raised /= "" THEN r ELSE Returned(r.result[1].end)

-----------------------------------------------------------------------------
(* One Match of a constructed engine and the calls made on it *)

\* the registries a Match is taken from: one template each, and one template
\* held by two pattern types
TreeRegistries ==
    { << <<Ph("", "b")>> >>,
      << <<Ph("", "a"), Ph("", "a")>> >>,
      << <<Ph("", "b"), Ph("", "b")>> >>,
      << <<Ph("", "a"), Ph("?:", "a"), Ph("", "a")>> >>,
      << <<Ph("", "a"), Ph("", "o")>> >>,
      << <<Ph("", "p"), Plus>> >>,
      << <<Ph("", "b"), Plus>> >>,
      << <<Ph("", "a")>>, <<Ph("", "a")>> >> }

\* the example of a pair repeated three times
ExampleText == <<"x", "z", "y", "z", "x", "z">>

TreeTexts == SeqsUpTo({"x", "z"}, TreeTextLen) \cup {ExampleText}

\* the keys a call names; zz is a key of no template
TreeKeys == {"a", "b", "o", "p", "zz"}

InitTree ==
    /\ \E ts \in TreeRegistries : input = Config(ts, 1)
    /\ whitespace_noise = NONE
    /\ patterns_src = <<>>
    /\ patterns_all = <<>>
    /\ group_counter = Counter
    /\ patterns = <<>>
    /\ all_groups = <<>>
    /\ pc = "new"
    /\ cur = NoCur
    /\ error = NoError
    /\ call = NoCall
    /\ prior = NoPrior
    /\ PurgeIdle
    /\ TreeIdle

\* lines 141-154 for one match of one pattern: regex.finditer from a
\* position of the string, and the Match built on what it finds
Find ==
    /\ pc = "ready"
    /\ match = NoMatch
    /\ \E txt \in TreeTexts, i \in 1..Len(patterns) :
          \E pos \in 0..Len(txt) :
              LET found == FindFrom(patterns[i].pattern, txt, pos)
                  template == patterns[i].template
                  touched == [x \in DOMAIN all_groups \cup {template} |->
                                 IF x \in DOMAIN all_groups THEN all_groups[x]
                                 ELSE <<>>]
              IN  /\ found /= <<>>
                  /\ string' = txt
                  /\ all_groups' = touched
                  /\ match' = MatchObject(patterns[i].key, touched[template], found[1])
                  /\ recv' = Root(match')
                  /\ nav' = NoNav
    /\ UNCHANGED <<input, whitespace_noise, patterns_src, patterns_all, group_counter,
                   patterns, pc, cur, error, call>>
    /\ UNCHANGED purgeVars
    /\ UNCHANGED prior

\* a call on recv that returns a list of Groups (None is the empty list)
Listed(op, key, root, result) ==
    [op |-> op, key |-> key, root |-> root, raised |-> "", result |-> result]

\* a call on recv that returns a value or raises
Answered(op, key, r) ==
    [op |-> op, key |-> key, root |-> FALSE, raised |-> r.raised, result |-> r.result]

\* a call is made on recv when the result of the last one is dropped
Calling ==
    /\ match /= NoMatch
    /\ nav = NoNav
    /\ UNCHANGED <<string, match, recv>>
    /\ UNCHANGED engineVars
    /\ UNCHANGED purgeVars

GroupsCall ==
    /\ Calling
    /\ \E key \in TreeKeys \cup {NONE}, root \in BOOLEAN :
          nav' = Listed("groups", key, root, groups(match, recv, key, root))

GroupCall ==
    /\ Calling
    /\ \E key \in TreeKeys : nav' = Listed("group", key, FALSE, group(match, recv, key))

FirstCall ==
    /\ Calling
    /\ nav' = Listed("first", NONE, FALSE, first(match, recv))

LastCall ==
    /\ Calling
    /\ nav' = Listed("last", NONE, FALSE, last(match, recv))

StartCall ==
    /\ Calling
    /\ \E key \in TreeKeys \cup {NONE} :
          nav' = Answered("start", key, start(match, recv, key))

EndCall ==
    /\ Calling
    /\ \E key \in TreeKeys \cup {NONE} :
          nav' = Answered("end", key, end(match, recv, key))

SpanCall ==
    /\ Calling
    /\ \E key \in TreeKeys \cup {NONE} :
          nav' = Answered("span", key, span(match, recv, key))

RepsCall ==
    /\ Calling
    /\ recv.kind = "Group"
    /\ nav' = Listed("reps", NONE, FALSE, reps(match, recv))

SerializeCall ==
    /\ Calling
    /\ nav' = Answered("serialize", NONE, Returned(serialize(match, string, recv)))

\* the next call is made on one of the Groups the last call returned
Enter ==
    /\ nav.op \in {"groups", "group", "first", "last", "reps"}
    /\ \E i \in 1..Len(nav.result) : recv' = nav.result[i]
    /\ nav' = NoNav
    /\ UNCHANGED <<string, match>>
    /\ UNCHANGED engineVars
    /\ UNCHANGED purgeVars

\* the result of the last call is dropped
Drop ==
    /\ nav /= NoNav
    /\ nav' = NoNav
    /\ UNCHANGED <<string, match, recv>>
    /\ UNCHANGED engineVars
    /\ UNCHANGED purgeVars

NextTree ==
    \/ Load \/ BuildNext \/ BuildGroup \/ BuildFinish \/ Find
    \/ GroupsCall \/ GroupCall \/ FirstCall \/ LastCall \/ StartCall \/ EndCall
    \/ SpanCall \/ RepsCall \/ SerializeCall \/ Enter \/ Drop

\* construction, one Match, then any sequence of calls on it and its Groups
SpecTree == InitTree /\ [][NextTree]_vars

-----------------------------------------------------------------------------
(* Claims about the navigation of a Match, checked under SpecTree *)

\* the names registered for the template of the Match
RegisteredNames == {match.names[i] : i \in 1..Len(match.names)}

\* the occurrences of a name that the engine captured within the span of self
CapturedIn(self, name) ==
    IF name \notin DOMAIN match.caps THEN {}
    ELSE {GroupObject(match, name, j - 1) :
             j \in {k \in 1..Len(match.caps[name]) :
                       /\ self.start <= match.caps[name][k].start
                       /\ match.caps[name][k].end <= self.end}}

\* the captured occurrences of the registered names within the Match
Expected == UNION {CapturedIn(Root(match), name) : name \in RegisteredNames}

\* the list holds each element of the set once and nothing else
ListsExactly(list, set) ==
    /\ \A g \in set : Cardinality({i \in 1..Len(list) : list[i] = g}) = 1
    /\ \A i \in 1..Len(list) : list[i] \in set

AscendingStart(list) ==
    \A i \in 1..(Len(list) - 1) : list[i].start <= list[i + 1].start

OnMatch(op) == nav.op = op /\ recv.kind = "Match"

OnGroup(op) == nav.op = op /\ recv.kind = "Group"

\* C13: Match.groups() with no key returns one Group for each captured
\* occurrence of each registered name within the span of the Match and
\* nothing else, ordered by ascending start; first() and last() are the first
\* and the last element of that list, absent when it is empty
C13_Original ==
    /\ (OnMatch("groups") /\ nav.key = NONE /\ ~nav.root) =>
           /\ ListsExactly(nav.result, Expected)
           /\ AscendingStart(nav.result)
    /\ OnMatch("first") =>
           IF Expected = {} THEN nav.result = <<>>
           ELSE /\ Len(nav.result) = 1
                /\ nav.result[1] \in Expected
                /\ \A g \in Expected : nav.result[1].start <= g.start
    /\ OnMatch("last") =>
           IF Expected = {} THEN nav.result = <<>>
           ELSE /\ Len(nav.result) = 1
                /\ nav.result[1] \in Expected
                /\ \A g \in Expected : g.start <= nav.result[1].start

\* the captured occurrences, within the Match, of the names registered for a key
ExpectedOf(key) == {g \in Expected : GroupKey(g.name) = key}

\* C14: Match.groups(key) returns exactly the captured occurrences within the
\* Match of all the names key_N registered for the key, and group(key) is its
\* first element, absent when there is none
C14_Original ==
    /\ (OnMatch("groups") /\ nav.key /= NONE /\ ~nav.root) =>
           /\ ListsExactly(nav.result, ExpectedOf(nav.key))
           /\ AscendingStart(nav.result)
    /\ OnMatch("group") =>
           IF ExpectedOf(nav.key) = {} THEN nav.result = <<>>
           ELSE /\ Len(nav.result) = 1
                /\ nav.result[1] \in ExpectedOf(nav.key)
                /\ \A g \in ExpectedOf(nav.key) : nav.result[1].start <= g.start

\* the part of a span that a call asks for
PartOf(op, sp) ==
    IF op = "start" THEN sp.start ELSE IF op = "end" THEN sp.end
    ELSE Span(sp.start, sp.end)

\* C15: on a Match and on a Group at any repetition index, start(key), end(key)
\* and span(key) return the start, end and span of the Group that group(key)
\* resolves to when there is one, and raise NoSuchGroup and nothing else
\* exactly when there is none; with no key they return those of the object
C15_Original ==
    nav.op \in {"start", "end", "span"} =>
        IF nav.key = NONE
        THEN nav.raised = "" /\ nav.result = <<PartOf(nav.op, recv)>>
        ELSE IF group(match, recv, nav.key) = <<>>
        THEN nav.raised = "NoSuchGroup"
        ELSE /\ nav.raised = ""
             /\ nav.result = <<PartOf(nav.op, group(match, recv, nav.key)[1])>>

Within(inner, outer) == outer.start <= inner.start /\ inner.end <= outer.end

\* the name `later` is registered after the name `earlier`
RegisteredAfter(later, earlier) ==
    \E i, j \in 1..Len(match.names) :
        i < j /\ match.names[i] = earlier /\ match.names[j] = later

\* C16: every Group that g.groups() or g.groups(key) returns on a Group g has
\* a name other than that of g, registered after it, and a span within the
\* span of g; every Group reached from a Match has a span within the span of
\* the Match
C16_ChildrenBelow ==
    /\ OnGroup("groups") =>
           \A i \in 1..Len(nav.result) :
               /\ nav.result[i].name /= recv.name
               /\ RegisteredAfter(nav.result[i].name, recv.name)
               /\ Within(nav.result[i], recv)
    /\ nav.op \in {"groups", "group", "first", "last"} =>
           \A i \in 1..Len(nav.result) : Within(nav.result[i], match)
    /\ recv.kind = "Group" => Within(recv, match)

\* a Group asked for its groups, with and without a key, has children
C16_Witness ==
    /\ OnGroup("groups")
    /\ nav.result /= <<>>
    /\ recv.start > match.start

SameSpan(a, b) == a.start = b.start /\ a.end = b.end

\* any two spans of the list are disjoint or one lies within the other
Nested(list) ==
    \A i, j \in 1..Len(list) :
        ~Overlap(list[i], list[j]) \/ Within(list[i], list[j]) \/ Within(list[j], list[i])

\* what groups() returns for the key of the last call
Candidates == groups(match, recv, nav.key, FALSE)

\* C17: when the spans of the candidates of groups() are nested or disjoint,
\* groups(root=True) returns exactly the outermost ones: the result does not
\* overlap, none of it lies within another candidate, every candidate lies
\* within some returned Group, and of candidates of one span the one
\* registered first is returned
C17_Original ==
    (nav.op = "groups" /\ nav.root /\ Nested(Candidates)) =>
        /\ \A i, j \in 1..Len(nav.result) :
               i /= j => ~Overlap(nav.result[i], nav.result[j])
        /\ \A i \in 1..Len(nav.result) :
               /\ \E k \in 1..Len(Candidates) : Candidates[k] = nav.result[i]
               /\ \A k \in 1..Len(Candidates) :
                      Within(nav.result[i], Candidates[k]) =>
                          /\ SameSpan(nav.result[i], Candidates[k])
                          /\ \/ Candidates[k].name = nav.result[i].name
                             \/ RegisteredAfter(Candidates[k].name, nav.result[i].name)
        /\ \A k \in 1..Len(Candidates) :
               \E i \in 1..Len(nav.result) : Within(Candidates[k], nav.result[i])

\* the spans the engine reports for the name of the Group asked
OccurrenceSpans == match.caps[recv.name]

\* the Match of the pair b = {{a}}z repeated, over the whole example text
RepeatedPair ==
    /\ patterns[1].template = <<Ph("", "b"), Plus>>
    /\ string = ExampleText
    /\ SameSpan(match, Span(0, Len(ExampleText)))

\* C18: g.reps() returns, when the engine reports n > 1 spans for the name of
\* g, n Groups of that name with repetition indices 0..n-1, the i-th with the
\* span and the text of the i-th occurrence, and the empty list otherwise, so
\* never a list of one; the pair repeated three times yields three Groups with
\* distinct spans that do not overlap, in the order of the input
C18_Reps ==
    OnGroup("reps") =>
        /\ IF Len(OccurrenceSpans) > 1
           THEN /\ Len(nav.result) = Len(OccurrenceSpans)
                /\ \A i \in 1..Len(nav.result) :
                       /\ nav.result[i].name = recv.name
                       /\ nav.result[i].rep_index = i - 1
                       /\ SameSpan(nav.result[i], OccurrenceSpans[i])
                       /\ Value(match, string, nav.result[i])
                              = SubSeq(string, OccurrenceSpans[i].start + 1,
                                       OccurrenceSpans[i].end)
           ELSE nav.result = <<>>
        /\ Len(nav.result) /= 1
        /\ (RepeatedPair /\ recv.name = Name("b", 0)) =>
               /\ Len(nav.result) = 3
               /\ \A i \in 1..2 :
                      /\ nav.result[i].end <= nav.result[i + 1].start
                      /\ ~SameSpan(nav.result[i], nav.result[i + 1])

\* reps() on the pair repeated three times
C18_Witness ==
    /\ OnGroup("reps")
    /\ RepeatedPair
    /\ recv.name = Name("b", 0)
    /\ Len(nav.result) = 3

\* the nodes filed under a node, whatever their key
RECURSIVE Flat(_, _)
Flat(filed, keys) ==
    IF keys = {} THEN <<>>
    ELSE LET k == CHOOSE x \in keys : TRUE
         IN  filed[k] \o Flat(filed, keys \ {k})

ChildNodes(node) == Flat(node.groups, DOMAIN node.groups)

\* the names of the nodes below a node
RECURSIVE NamesBelow(_)
NamesBelow(node) ==
    UNION {{ChildNodes(node)[i].name} \cup NamesBelow(ChildNodes(node)[i]) :
              i \in 1..Len(ChildNodes(node))}

RECURSIVE WellFormed(_)
WellFormed(node) ==
    /\ \A i, j \in 1..Len(ChildNodes(node)) :
           i /= j => ~Overlap(ChildNodes(node)[i].offset, ChildNodes(node)[j].offset)
    /\ \A k \in DOMAIN node.groups :
           \A i \in 1..Len(node.groups[k]) :
               LET child == node.groups[k][i]
               IN  /\ Within(child.offset, node.offset)
                   /\ child.value = SubSeq(string, child.offset.start + 1,
                                           child.offset.end)
                   /\ child.kind = "Group"
                   /\ k = child.name.key
                   /\ child.key = k
                   /\ child.name \in RegisteredNames
                   /\ child.name \notin NamesBelow(child)
                   /\ WellFormed(child)

\* C19: in the tree of serialize(), the offset of every group node lies within
\* that of its parent and so of the Match, its value is the text between its
\* offsets, the nodes under one parent do not overlap, each node is filed
\* under the key its registered name has without the numeric suffix, and no
\* name is found below itself
C19_Tree ==
    nav.op = "serialize" =>
        /\ WellFormed(nav.result[1])
        /\ Within(nav.result[1].offset, match)
        /\ nav.result[1].value
               = SubSeq(string, nav.result[1].offset.start + 1,
                        nav.result[1].offset.end)

\* the tree of a Match with two nodes under one key, the first with a node
\* of its own
C19_Witness ==
    /\ OnMatch("serialize")
    /\ match.start > 0
    /\ \E k \in DOMAIN nav.result[1].groups :
          /\ Len(nav.result[1].groups[k]) = 2
          /\ ChildNodes(nav.result[1].groups[k][1]) /= <<>>

-----------------------------------------------------------------------------
(* Claims about search and about the state of a constructed engine, checked
   under Spec *)

\* what parse returns for the text and the options of the last call
ParseOfCall == parse(patterns, call.found, call.overlapped)

\* C21: for the same text and options, search returns the first element of
\* the list parse returns, and None exactly when that list is empty
C21_SearchIsFirstOfParse ==
    call.op = "search" =>
        IF ParseOfCall = <<>> THEN call.result = <<>>
        ELSE call.result = <<ParseOfCall[1]>>

\* a search on a text where parse returns two Matches
C21_Witness ==
    /\ call.op = "search"
    /\ Len(ParseOfCall) = 2
    /\ ParseOfCall[1] /= ParseOfCall[2]
    /\ call.result = <<ParseOfCall[1]>>

\* the registry of the engine: the compiled patterns, the source table and
\* the mapping from template to registered names
Registry == <<patterns, patterns_src, patterns_all, all_groups>>

\* C22: once initialization has finished, no parse or search call changes
\* the compiled patterns, the source table or the mapping from template to
\* registered names, the set of its keys included
C22_Original == [][pc = "ready" => Registry' = Registry]_vars

-----------------------------------------------------------------------------
(* Engines built from a mapping of several bundles *)

\* the source keys the bundles define
LoadKeys == {SrcKey("", "a"), SrcKey("", "b"), SrcKey("?:", "n")}

\* the "$PATTERNS" lists of the bundles
LoadRuns == {<<>>, << <<Ph("", "a")>> >>, << <<Ph("", "b")>> >>, << <<Ph("", "n")>> >>}

BundleNames == <<"t1", "t2", "t3">>

\* what one bundle may hold: some of the keys, with or without a "$PATTERNS"
\* list
BundleContents ==
    {c \in [hasRun : BOOLEAN, run : LoadRuns,
            src : {[k \in keys |-> SourceTable[k]] : keys \in SUBSET LoadKeys}] :
        c.run /= <<>> => c.hasRun}

\* the mappings handed to Replus(...)
Mappings ==
    UNION {{[i \in 1..n |-> [name |-> BundleNames[i], hasRun |-> c[i].hasRun,
                             run |-> c[i].run, src |-> c[i].src]] :
               c \in [1..n -> BundleContents]} : n \in 1..MaxBundles}

InitLoad ==
    /\ input \in Mappings
    /\ whitespace_noise = NONE
    /\ patterns_src = <<>>
    /\ patterns_all = <<>>
    /\ group_counter = Counter
    /\ patterns = <<>>
    /\ all_groups = <<>>
    /\ pc = "new"
    /\ cur = NoCur
    /\ error = NoError
    /\ call = NoCall
    /\ prior = NoPrior
    /\ PurgeIdle
    /\ TreeIdle

\* the caller builds a second engine from the mapping it built the first
\* from: lines 68-72 on a new object
Again ==
    /\ pc = "ready"
    /\ ~prior.built
    /\ prior' = [built |-> TRUE, patterns_all |-> patterns_all,
                 patterns |-> patterns, all_groups |-> all_groups]
    /\ patterns_src' = <<>>
    /\ patterns_all' = <<>>
    /\ group_counter' = Counter
    /\ patterns' = <<>>
    /\ all_groups' = <<>>
    /\ pc' = "new"
    /\ cur' = NoCur
    /\ UNCHANGED <<input, whitespace_noise, error, call>>
    /\ UNCHANGED purgeVars
    /\ UNCHANGED treeVars

NextLoad == Load \/ BuildNext \/ BuildGroup \/ BuildFinish \/ Again

\* construction from a mapping of several bundles, once and then once more
SpecLoad == InitLoad /\ [][NextLoad]_vars

-----------------------------------------------------------------------------
(* Claims about the loader and the caller's mapping, checked under SpecLoad *)

\* a source key is defined in two bundles of the mapping
Duplicated ==
    \E i, j \in 1..Len(input) :
        i /= j /\ DOMAIN input[i].src \cap DOMAIN input[j].src /= {}

\* C23: loading bundles two of which define the same source key fails with
\* an error at load time and leaves no source table and no engine; when all
\* the keys are distinct the source table is the union of the entries of the
\* bundles, the "$PATTERNS" lists left out
C23_DuplicateKeysFail ==
    pc /= "new" =>
        IF Duplicated
        THEN /\ pc = "failed"
             /\ error.kind = "KeyError"
             /\ patterns_src = <<>>
             /\ patterns_all = <<>>
             /\ patterns = <<>>
        ELSE /\ error.kind /= "KeyError"
             /\ DOMAIN patterns_src = UNION {DOMAIN input[i].src : i \in 1..Len(input)}
             /\ \A i \in 1..Len(input) :
                    \A k \in DOMAIN input[i].src : patterns_src[k] = input[i].src[k]

\* the load of two bundles that both define a key has failed
C23_Witness ==
    /\ pc = "failed"
    /\ error.kind = "KeyError"
    /\ Len(input) = 2
    /\ SrcKey("", "a") \in DOMAIN input[1].src \cap DOMAIN input[2].src

\* the pattern types, templates and registered names the engine holds are
\* those of the engine built before
SameAsPrior ==
    /\ patterns_all = prior.patterns_all
    /\ Len(patterns) = Len(prior.patterns)
    /\ \A i \in 1..Len(patterns) :
           /\ patterns[i].key = prior.patterns[i].key
           /\ patterns[i].template = prior.patterns[i].template
    /\ all_groups = prior.all_groups

\* C26: constructing an engine from a mapping leaves the mapping as the
\* caller passed it, so a second engine constructed from it has the pattern
\* types, templates and registered names of the first
C26_Original ==
    [][/\ pc = "new" => input' = input
       /\ (prior.built /\ pc' = "ready") => SameAsPrior']_vars

-----------------------------------------------------------------------------
(* Claims about the order of the registered names and about the passes of the
   compiler, checked under SpecBuild *)

\* the list registered for a template, empty when it has none
NamesOf(registered, template) ==
    IF template \in DOMAIN registered THEN registered[template] ELSE <<>>

\* the nesting depth at token j counted from the group opened at token i:
\* 0 or less once that group is closed
RECURSIVE DepthFrom(_, _, _)
DepthFrom(pattern, i, j) ==
    IF j = i THEN 1
    ELSE LET d == DepthFrom(pattern, i, j - 1)
             tok == pattern[j]
         IN  IF d <= 0 THEN 0
             ELSE IF tok.t \in {"named", "open"} \/ tok = Lit("(") THEN d + 1
             ELSE IF tok.t = "close" THEN d - 1
             ELSE d

\* the named group at token j lies inside the named group at token i
Encloses(pattern, i, j) ==
    /\ i < j
    /\ pattern[i].t = "named"
    /\ pattern[j].t = "named"
    /\ DepthFrom(pattern, i, j - 1) > 0

\* wherever `inner` is listed, `outer` is listed before it
ListedBefore(list, outer, inner) ==
    /\ \E j \in 1..Len(list) : list[j] = inner
    /\ \A j \in 1..Len(list) :
           list[j] = inner => \E i \in 1..(j - 1) : list[i] = outer

\* in the list of the template of the pattern, the name of every enclosing
\* group comes before the names of the groups inside it
NestingOrder(pattern, template) ==
    \A i, j \in 1..Len(pattern) :
        Encloses(pattern, i, j) =>
            ListedBefore(NamesOf(all_groups, template),
                         Name(pattern[i].key, pattern[i].idx),
                         Name(pattern[j].key, pattern[j].idx))

\* a pass leaves the list of every template as it was or appends to it the
\* name of the placeholder it expanded
AppendsExpanded ==
    \A t \in DOMAIN all_groups' :
        \/ all_groups'[t] = NamesOf(all_groups, t)
        \/ /\ Expanding
           /\ t = CurEntry.template
           /\ all_groups'[t] = Append(NamesOf(all_groups, t),
                                      Name(NextGroupMatch.key,
                                           group_counter[NextGroupMatch.key]))

\* C24: the names of a template are listed in the order their placeholders
\* are expanded, and the name of a named group comes before the names of all
\* the named groups nested inside it in the pattern, so that no nested group
\* is listed before the group that encloses it
C24_EnclosingFirst ==
    [][/\ AppendsExpanded
       /\ (pc' = "expand" => NestingOrder(cur.pattern, CurEntry.template)')
       /\ \A i \in 1..Len(patterns') :
              NestingOrder(patterns[i].pattern, patterns[i].template)']_vars

\* b = {{a}}z is compiled: b_0 encloses a_0 and is listed first
C24_Witness ==
    /\ pc = "ready"
    /\ \E i \in 1..Len(patterns) :
          /\ Encloses(patterns[i].pattern, 1, 2)
          /\ patterns[i].pattern[1] = Named("b", 0)
          /\ patterns[i].pattern[2] = Named("a", 0)
          /\ all_groups[patterns[i].template] = <<Name("b", 0), Name("a", 0)>>

\* the template being compiled uses the documented placeholder syntax and
\* none of its keys refers back to itself (c = {{c}} is the one that does)
DocumentedAcyclic ==
    \A i \in 1..Len(CurEntry.template) :
        CurEntry.template[i].t = "ph" =>
            /\ DocumentedPlaceholder(CurEntry.template[i])
            /\ CurEntry.template[i].key /= "c"

\* C25: for a template of the documented syntax over a source table without
\* self-reference, every pass that does not fail replaces the placeholder it
\* selected, so that compilation ends after finitely many passes in a pattern
\* without placeholders or in an error
C25_Original ==
    [][(Expanding /\ DocumentedAcyclic /\ pc' = "expand") =>
           cur.pattern'[FirstGroupMatch(cur.pattern)] /= NextGroupMatch]_vars

-----------------------------------------------------------------------------
(* Claims about the order of the list handed to the overlap resolver, checked
   under SpecPurge *)

\* the lists that hold the elements of s in another order
Reorderings(s) ==
    {[i \in 1..Len(s) |-> s[f[i]]] :
        f \in {g \in [1..Len(s) -> 1..Len(s)] :
                  \A i, j \in 1..Len(s) : i /= j => g[i] /= g[j]}}

\* C27: the spans purge_overlaps returns depend on the spans of the list
\* passed and not on their order, empty spans and spans of one start
\* included, and purge_overlaps returns its own result unchanged
C27_Original ==
    ppc = "done" =>
        /\ \A s \in Reorderings(arg) : SpansOf(purge_overlaps(s)) = SpansOf(ret)
        /\ purge_overlaps(ret) = ret

====
